---- MODULE Spec2Model ----
(***************************************************************************)
(* Model of src/main.py: a Discord bot that creates one forum thread per   *)
(* user per forum when a message is posted in a source channel, records    *)
(* message -> threads links in a JSON file, and deletes the linked threads *)
(* when the message is deleted.                                            *)
(*                                                                         *)
(* Text is modelled as sequences of one-character strings, so that         *)
(* startswith, slicing and concatenation are computed as Python does.      *)
(* Handlers are asyncio tasks: one action is the code between two points   *)
(* where the task really suspends (an HTTP call to the platform).  The     *)
(* library dispatches the three events in any order and any number of      *)
(* times: on_ready again after a reconnect, the other two also before it.  *)
(* asyncio.Lock.acquire() returns without suspending when the lock is free *)
(* and the bodies of add_link / pop_links contain no await, so each of     *)
(* them runs inside a single action.                                       *)
(***************************************************************************)
EXTENDS Integers, Sequences, FiniteSets, TLC

(***************************************************************************)
(* Program constants.  The role identities are read from the environment  *)
(* (lines 21-22); any two distinct identities behave alike.                *)
(***************************************************************************)
MALE_ROLE_ID == 11
FEMALE_ROLE_ID == 12
ARCHIVED_LIMIT == 200
\* forum.archived_threads (line 120) asks the platform for the listing in
\* pages of this many threads, awaiting each page
PAGE_SIZE == 100
\* and never for fewer than this many
MIN_PAGE == 2
NAME_LIMIT == 95
DUE_DAYS == 10
JST == 9

(***************************************************************************)
(* Bounds of the model                                                     *)
(***************************************************************************)
MaxEvents == 2
MaxRestarts == 1

(***************************************************************************)
(* Generic helpers                                                         *)
(***************************************************************************)
Range(s) == {s[i] : i \in 1..Len(s)}

Min(a, b) == IF a <= b THEN a ELSE b

Max(a, b) == IF a >= b THEN a ELSE b

\* Python slice s[:n]
Prefix(s, n) == SubSeq(s, 1, Min(n, Len(s)))

\* Python str.startswith
StartsWith(s, p) == Len(p) <= Len(s) /\ SubSeq(s, 1, Len(p)) = p

DigitChar(d) == <<"0", "1", "2", "3", "4", "5", "6", "7", "8", "9">>[d + 1]

\* Python str(n) / f"{n}" for n >= 0: the decimal digits of n
RECURSIVE Str(_)
Str(n) == IF n < 10 THEN <<DigitChar(n)>>
          ELSE Str(n \div 10) \o <<DigitChar(n % 10)>>

(***************************************************************************)
(* Dates: datetime + timedelta(days=10), then astimezone(JST)              *)
(* A timestamp is [y, mo, d, hh, off, naive]: wall clock date and hour,    *)
(* the UTC offset in hours of its tzinfo, and whether it has no tzinfo.    *)
(***************************************************************************)
IsLeap(y) == (y % 4 = 0 /\ y % 100 # 0) \/ y % 400 = 0

DaysIn(y, mo) == IF mo = 2 THEN (IF IsLeap(y) THEN 29 ELSE 28)
                 ELSE IF mo \in {4, 6, 9, 11} THEN 30 ELSE 31

NextDay(t) ==
    IF t.d < DaysIn(t.y, t.mo) THEN [t EXCEPT !.d = t.d + 1]
    ELSE IF t.mo < 12 THEN [t EXCEPT !.d = 1, !.mo = t.mo + 1]
    ELSE [t EXCEPT !.d = 1, !.mo = 1, !.y = t.y + 1]

PrevDay(t) ==
    IF t.d > 1 THEN [t EXCEPT !.d = t.d - 1]
    ELSE IF t.mo > 1 THEN [t EXCEPT !.d = DaysIn(t.y, t.mo - 1), !.mo = t.mo - 1]
    ELSE [t EXCEPT !.d = 31, !.mo = 12, !.y = t.y - 1]

RECURSIVE AddDays(_, _)
AddDays(t, n) == IF n = 0 THEN t ELSE AddDays(NextDay(t), n - 1)

\* datetime.astimezone(JST): same instant, wall clock of UTC+9
AsTimezoneJST(t) ==
    LET hh == t.hh + (JST - t.off) IN
    IF hh >= 24 THEN [NextDay(t) EXCEPT !.hh = hh - 24, !.off = JST]
    ELSE IF hh < 0 THEN [PrevDay(t) EXCEPT !.hh = hh + 24, !.off = JST]
    ELSE [t EXCEPT !.hh = hh, !.off = JST]

\* on_message lines 177-179: a naive created_at is taken as JST wall clock
BaseTime(created_at) ==
    IF created_at.naive THEN [created_at EXCEPT !.off = JST, !.naive = FALSE]
    ELSE created_at

\* Mutant of make_thread_name: the due date is not converted to JST
make_thread_name_NoZone(display_name, base_time) ==
    LET due == AddDays(base_time, DUE_DAYS)
        date_label == Str(due.mo) \o <<"/">> \o Str(due.d)
    IN  Prefix(display_name \o <<"/">> \o date_label, NAME_LIMIT)

make_thread_name(display_name, base_time) ==
    LET due == AsTimezoneJST(AddDays(base_time, DUE_DAYS))
        date_label == Str(due.mo) \o <<"/">> \o Str(due.d)
    IN  Prefix(display_name \o <<"/">> \o date_label, NAME_LIMIT)

name_belongs_to_user(thread_name, display_name) ==
    StartsWith(thread_name, display_name \o <<"/">>)

(***************************************************************************)
(* The environment the handlers run in                                     *)
(***************************************************************************)
Chr(c) == <<c>>

\* Channel identities of the guild: two forum channels, one text channel
\* that is not a forum, one identity that resolves to nothing, the watched
\* source channel and another text channel.
Forum1 == 1
Forum2 == 2
TextChannel == 3
UnknownChannel == 4
SourceChannel == 7
OtherChannel == 8
ForumIds == {Forum1, Forum2}

\* isinstance(guild.get_channel(fid), discord.ForumChannel)
IsForumChannel(fid) == fid \in ForumIds

OtherRole == 13

\* message.author: display name, role identities, bot flag
MemberA == [display |-> Chr("A"), roles |-> {MALE_ROLE_ID}, bot |-> FALSE]
MemberB == [display |-> Chr("B"), roles |-> {FEMALE_ROLE_ID, OtherRole}, bot |-> FALSE]
MemberAB == [display |-> <<"A", "/", "B">>, roles |-> {MALE_ROLE_ID, FEMALE_ROLE_ID},
             bot |-> FALSE]
MemberC == [display |-> Chr("C"), roles |-> {OtherRole}, bot |-> FALSE]
MemberBot == [display |-> Chr("R"), roles |-> {MALE_ROLE_ID}, bot |-> TRUE]
Members == {MemberA, MemberB, MemberAB, MemberC, MemberBot}

\* message.created_at values
Time1 == [y |-> 2024, mo |-> 1, d |-> 1, hh |-> 0, off |-> JST, naive |-> FALSE]
Time2 == [y |-> 2024, mo |-> 2, d |-> 19, hh |-> 16, off |-> 0, naive |-> FALSE]

\* The messages the platform can report: identity, author, channel, whether
\* sent in a guild, creation time.  Two are by the same author.
Message(id, author, channel, guild, at) ==
    [id |-> id, author |-> author, channel |-> channel, guild |-> guild,
     created_at |-> at]

Messages ==
    { Message(1, MemberA, SourceChannel, TRUE, Time1),
      Message(2, MemberA, SourceChannel, TRUE, Time2),
      Message(3, MemberB, SourceChannel, TRUE, Time1),
      Message(4, MemberC, SourceChannel, TRUE, Time1),
      Message(5, MemberBot, SourceChannel, TRUE, Time1),
      Message(6, MemberA, OtherChannel, TRUE, Time1),
      Message(7, MemberA, SourceChannel, FALSE, Time1) }

\* The message identities deletion is reported for
DeletedIds == {1, 2}

\* Threads that exist on the platform before the process starts
OldThread1 == 1
OldThread2 == 2
\* A thread an earlier run linked, deleted on the platform since
GoneThread == 3
OldName == <<"A", "/", "1", "/", "1">>

EmptyForums == [f \in ForumIds |-> <<>>]

\* The files the process can find at THREAD_LINKS_FILE: none, one that is
\* not JSON, or a mapping written by an earlier run.
EmptyMap == [k \in {} |-> <<>>]
Missing == [kind |-> "missing", map |-> EmptyMap]
Corrupt == [kind |-> "corrupt", map |-> EmptyMap]
FileOf(m) == [kind |-> "file", map |-> m]

(***************************************************************************)
(* Deployments: the environment variables of lines 16-33, the threads the  *)
(* forums hold and the links file, as the process finds them.  An archived *)
(* listing is a sequence whose positive entries are thread identities and  *)
(* whose negative entry -n stands for n archived threads of other users.   *)
(***************************************************************************)
Deployments ==
    { [ SOURCE_TEXT_CHANNEL_IDS |-> <<SourceChannel>>,
        MALE_FORUM_IDS |-> <<Forum1, Forum2>>,
        FEMALE_FORUM_IDS |-> <<Forum2, Forum1>>,
        DEFAULT_FORUM_IDS |-> <<>>,
        archived |-> EmptyForums,
        names |-> <<>>,
        file |-> Missing ],
      [ SOURCE_TEXT_CHANNEL_IDS |-> <<OtherChannel, SourceChannel>>,
        MALE_FORUM_IDS |-> <<Forum1, Forum1, TextChannel, Forum2>>,
        FEMALE_FORUM_IDS |-> <<>>,
        DEFAULT_FORUM_IDS |-> <<Forum2, UnknownChannel, Forum2>>,
        archived |-> (Forum1 :> <<1 - ARCHIVED_LIMIT, OldThread1>>)
                     @@ (Forum2 :> <<0 - ARCHIVED_LIMIT, OldThread2>>),
        names |-> <<OldName, OldName, OldName>>,
        file |-> FileOf(Str(2) :> <<GoneThread, OldThread1>>) ],
      [ SOURCE_TEXT_CHANNEL_IDS |-> <<>>,
        MALE_FORUM_IDS |-> <<Forum1>>,
        FEMALE_FORUM_IDS |-> <<Forum1>>,
        DEFAULT_FORUM_IDS |-> <<Forum1>>,
        archived |-> EmptyForums,
        names |-> <<>>,
        file |-> Corrupt ] }

Handlers == 1..MaxEvents

VARIABLES
    cfg,            \* the deployment's configuration (module globals)
    ready,          \* on_ready has run
    links,          \* _links: str(message_id) -> list of thread ids
    disk,           \* content of THREAD_LINKS_FILE
    flushes,        \* number of save_links calls so far
    forumThreads,   \* forum.threads: active threads, in enumeration order
    forumArchived,  \* forum.archived_threads: listing order
    threadName,     \* thread id -> name, of every thread ever created
    task,           \* one record per event handler task
    started,        \* number of events dispatched so far
    fetchCalls,     \* thread id -> number of bot.fetch_channel calls
    restarts,       \* number of times the process was started again
    flushed,        \* the mapping written by the last save_links that
                    \* succeeded; before any, what the file held at first
    touched,        \* add_link or pop_links has changed _links since the
                    \* module was imported
    dropped         \* load_links has replaced a mapping that add_link or
                    \* pop_links had changed and the file did not hold

vars == <<cfg, ready, links, disk, flushes, forumThreads, forumArchived,
          threadName, task, started, fetchCalls, restarts, flushed, touched, dropped>>

(***************************************************************************)
(* Router                                                                  *)
(***************************************************************************)
\* Mutant of IdCandidates: with nothing to fall back on, the male list is used
IdCandidates_FallsBackToMale(roles) ==
    LET has_male == MALE_ROLE_ID \in roles
        has_female == FEMALE_ROLE_ID \in roles
        c1 == IF has_male THEN cfg.MALE_FORUM_IDS ELSE <<>>
        c2 == IF has_female THEN c1 \o cfg.FEMALE_FORUM_IDS ELSE c1
        c3 == IF c2 = <<>> THEN c2 \o cfg.DEFAULT_FORUM_IDS ELSE c2
    IN  IF c3 = <<>> THEN cfg.MALE_FORUM_IDS ELSE c3

\* lines 129-138
IdCandidates(roles) ==
    LET has_male == MALE_ROLE_ID \in roles
        has_female == FEMALE_ROLE_ID \in roles
        c1 == IF has_male THEN cfg.MALE_FORUM_IDS ELSE <<>>
        c2 == IF has_female THEN c1 \o cfg.FEMALE_FORUM_IDS ELSE c1
    IN  IF c2 = <<>> THEN c2 \o cfg.DEFAULT_FORUM_IDS ELSE c2

\* lines 141-149: the loop over id_candidates from position i on
RECURSIVE CollectForums(_, _, _, _)
CollectForums(cands, i, seen, forums) ==
    IF i > Len(cands) THEN forums
    ELSE LET fid == cands[i] IN
         IF fid \in seen THEN CollectForums(cands, i + 1, seen, forums)
         ELSE IF IsForumChannel(fid)
              THEN CollectForums(cands, i + 1, seen \cup {fid}, Append(forums, fid))
              ELSE CollectForums(cands, i + 1, seen \cup {fid}, forums)

\* Mutant of gather_target_forums: the seen set is not consulted
gather_target_forums_NoDedup(roles) ==
    SelectSeq(IdCandidates(roles), IsForumChannel)

gather_target_forums(roles) == CollectForums(IdCandidates(roles), 1, {}, <<>>)

(***************************************************************************)
(* Link Store                                                              *)
(***************************************************************************)
\* _links.get(key, [])
Entry(map, key) == IF key \in DOMAIN map THEN map[key] ELSE <<>>

\* dict with key absent
Without(map, key) == [k \in DOMAIN map \ {key} |-> map[k]]

\* dict with map[key] = val
With(map, key, val) == [k \in DOMAIN map \cup {key} |-> IF k = key THEN val ELSE map[k]]

\* What one call of save_links can do: write the whole mapping; fail in
\* open() (file untouched); fail inside json.dump after open(..., "w") has
\* truncated the file (file left unparsable); fail in os.makedirs, which is
\* outside the try block, so the exception leaves save_links.
SaveOutcomes == {"ok", "open_fail", "dump_fail", "dir_fail"}

\* save_links: the file after the call, and whether the call raised
save_links(map, file, outcome) ==
    CASE outcome = "ok" -> [file |-> FileOf(map), raised |-> FALSE]
      [] outcome = "open_fail" -> [file |-> file, raised |-> FALSE]
      [] outcome = "dump_fail" -> [file |-> Corrupt, raised |-> FALSE]
      [] outcome = "dir_fail" -> [file |-> file, raised |-> TRUE]

\* What one call of load_links can meet: the file is read, or open() or
\* json.load raises on a file that is there
LoadOutcomes == {"ok", "read_fail"}

\* load_links lines 64-74: the mapping after the call.  A missing file, a
\* file that does not parse and a read that fails all give {}
load_links(file, outcome) ==
    IF file.kind = "file" /\ outcome = "ok" THEN file.map ELSE EmptyMap

\* Mutant of add_link: every key shares one list object
add_link_SharedList(map, file, message_id, thread_id, outcome) ==
    LET key == Str(message_id)
        new == [k \in DOMAIN map \cup {key} |-> Append(Entry(map, k), thread_id)]
        s == save_links(new, file, outcome)
    IN  [map |-> new, file |-> s.file, saved |-> TRUE, raised |-> s.raised]

\* Mutant of add_link: _links.get(key, []).append(thread_id) in place of
\* setdefault, so that nothing is recorded under a key that is absent
add_link_NoDefault(map, file, message_id, thread_id, outcome) ==
    LET key == Str(message_id)
        cur == Entry(map, key)
        new == IF key \in DOMAIN map THEN With(map, key, Append(cur, thread_id))
               ELSE map
        s == save_links(new, file, outcome)
    IN  IF thread_id \in Range(cur)
        THEN [map |-> map, file |-> file, saved |-> FALSE, raised |-> FALSE]
        ELSE [map |-> new, file |-> s.file, saved |-> TRUE, raised |-> s.raised]

\* add_link lines 84-90: the mapping and the file after the call, whether
\* save_links was called, and whether the call raised
add_link(map, file, message_id, thread_id, outcome) ==
    LET key == Str(message_id)
        cur == Entry(map, key)
        new == With(map, key, Append(cur, thread_id))
        s == save_links(new, file, outcome)
    IN  IF thread_id \in Range(cur)
        THEN [map |-> With(map, key, cur), file |-> file, saved |-> FALSE,
              raised |-> FALSE]
        ELSE [map |-> new, file |-> s.file, saved |-> TRUE, raised |-> s.raised]

\* Mutant of pop_links: the flush is not guarded by "if ids"
pop_links_AlwaysSaves(map, file, message_id, outcome) ==
    LET key == Str(message_id)
        new == Without(map, key)
        s == save_links(new, file, outcome)
    IN  [map |-> new, file |-> s.file, ids |-> Entry(map, key), saved |-> TRUE,
         raised |-> s.raised]

\* pop_links lines 92-99: the mapping and the file after the call, the ids
\* taken out, whether save_links was called, and whether the call raised
\* instead of returning the ids
pop_links(map, file, message_id, outcome) ==
    LET key == Str(message_id)
        ids == Entry(map, key)
        new == Without(map, key)
        s == save_links(new, file, outcome)
    IN  IF ids # <<>>
        THEN [map |-> new, file |-> s.file, ids |-> ids, saved |-> TRUE,
              raised |-> s.raised]
        ELSE [map |-> new, file |-> file, ids |-> ids, saved |-> FALSE,
              raised |-> FALSE]

(***************************************************************************)
(* Thread Identity Resolver                                                *)
(***************************************************************************)
\* The thread identities among the first n threads of an archived listing
RECURSIVE Listed(_, _)
Listed(listing, n) ==
    IF listing = <<>> \/ n <= 0 THEN <<>>
    ELSE LET e == Head(listing) IN
         IF e < 0 THEN Listed(Tail(listing), n + e)
         ELSE <<e>> \o Listed(Tail(listing), n - 1)

\* find_existing_user_thread lines 115-117: a match among the active threads
ActiveMatch(forum, display_name) ==
    \E i \in 1..Len(forumThreads[forum]) :
        name_belongs_to_user(threadName[forumThreads[forum][i]], display_name)

\* The number of threads in an archived listing
RECURSIVE Count(_)
Count(listing) ==
    IF listing = <<>> THEN 0
    ELSE LET e == Head(listing) IN
         (IF e < 0 THEN 0 - e ELSE 1) + Count(Tail(listing))

\* The listing after the threads the iterator has been given so far: n
\* threads of other users and the threads with the identities ids.  (The
\* next page is asked for with before = the last thread given.)
RECURSIVE Rest(_, _, _)
Rest(listing, n, ids) ==
    IF listing = <<>> THEN <<>>
    ELSE LET e == Head(listing) IN
         IF e >= 0 THEN (IF e \in ids \/ n > 0 THEN Rest(Tail(listing), n, ids)
                         ELSE listing)
         ELSE IF n = 0 THEN listing
         ELSE IF 0 - e <= n THEN Rest(Tail(listing), n + e, ids)
         ELSE <<e + n>> \o Tail(listing)

\* No page asked for yet
NoCursor == [others |-> 0, ids |-> {}]

\* The number of threads given so far
Given(cursor) == cursor.others + Cardinality(cursor.ids)

\* What is left of limit=200, which is counted down with every thread given
Left(cursor) == ARCHIVED_LIMIT - Given(cursor)

\* The size of the page asked for next: max(2, min(100, limit))
Retrieve(cursor) == Max(MIN_PAGE, Min(PAGE_SIZE, Left(cursor)))

\* The number of threads of that page the iterator gives at most: it ends
\* when the limit is used up, also in the middle of a page
Yielded(cursor) == Min(Retrieve(cursor), Left(cursor))

\* What the platform has left to list for the iterator
Unlisted(forum, cursor) == Rest(forumArchived[forum], cursor.others, cursor.ids)

\* The thread identities the iterator gives from the page asked for next
PageIds(forum, cursor) == Listed(Unlisted(forum, cursor), Yielded(cursor))

\* The cursor after that page has been gone through
NextCursor(forum, cursor) ==
    LET size == Min(Yielded(cursor), Count(Unlisted(forum, cursor)))
        ids == Range(PageIds(forum, cursor))
    IN  [others |-> cursor.others + size - Cardinality(ids),
         ids |-> cursor.ids \cup ids]

\* After that page the iterator asks for another one: the limit is not used
\* up and the platform has said there is more
MorePages(forum, cursor) ==
    /\ Given(NextCursor(forum, cursor)) < ARCHIVED_LIMIT
    /\ Count(Unlisted(forum, cursor)) > Retrieve(cursor)

\* Mutant of ArchivedMatch: only the first page is looked at
ArchivedMatch_FirstPageOnly(forum, display_name, cursor, listing_ok) ==
    /\ listing_ok
    /\ cursor = NoCursor
    /\ \E t \in Range(PageIds(forum, cursor)) :
           name_belongs_to_user(threadName[t], display_name)

\* find_existing_user_thread lines 119-124: a match in the page of the
\* archived listing that arrives; when the request fails the exception is
\* swallowed and nothing matches
ArchivedMatch(forum, display_name, cursor, listing_ok) ==
    /\ listing_ok
    /\ \E t \in Range(PageIds(forum, cursor)) :
           name_belongs_to_user(threadName[t], display_name)

\* Whether the thread still exists on the platform
Exists(tid) ==
    \E f \in ForumIds : tid \in Range(forumThreads[f]) \cup Range(forumArchived[f])

Remove(s, x) == SelectSeq(s, LAMBDA e : e # x)

(***************************************************************************)
(* Handler tasks                                                           *)
(***************************************************************************)
IdleTask ==
    [ kind |-> "none", pc |-> "idle", msg |-> 0, display |-> <<>>, roles |-> {},
      name |-> <<>>, forums |-> <<>>, idx |-> 0, tid |-> 0,
      listed |-> TRUE,    \* FALSE while create_thread is pending after a
                          \* failed archived listing
      cursor |-> NoCursor,  \* the archived threads of forums[idx] gone through
      calls |-> <<>>,     \* forums on which create_thread was called
      made |-> <<>>,      \* thread ids create_thread returned
      tids |-> <<>>,      \* the ids pop_links took out of the mapping
      unlinked |-> {},    \* the threads made for the message and not yet
                          \* passed to add_link when pop_links ran
      fetched |-> <<>>,   \* thread ids passed to bot.fetch_channel
      deleted |-> <<>>,   \* thread ids on which ch.delete was called
      log |-> <<>> ]      \* what the task logged, one entry per forum or thread

\* on_message lines 184-190: the for loop runs on, without suspending, over
\* the forums whose active threads already hold a match ([Skip] is logged);
\* it suspends at the first forum whose archived threads have to be listed.
RECURSIVE Advance(_, _, _)
Advance(forums, i, display_name) ==
    IF i > Len(forums) THEN i
    ELSE IF ActiveMatch(forums[i], display_name)
         THEN Advance(forums, i + 1, display_name)
         ELSE i

\* Mutant of Continue: a failure in one forum ends the handler
Continue_StopsOnFailure(t, entry) ==
    LET j == Advance(t.forums, t.idx + 1, t.display)
        skips == [i \in 1..(j - t.idx - 1) |-> "skip"]
        said == IF entry = "" THEN t.log ELSE Append(t.log, entry)
        failed == entry \in {"create_failed", "link_failed"}
    IN  IF failed THEN [t EXCEPT !.tid = 0, !.listed = TRUE, !.cursor = NoCursor,
                                 !.log = said, !.pc = "done"]
        ELSE [t EXCEPT !.idx = j, !.tid = 0, !.listed = TRUE, !.cursor = NoCursor,
                       !.log = said \o skips,
                       !.pc = IF j > Len(t.forums) THEN "done" ELSE "listing"]

\* The task after its work on forums[idx] has ended with log entry `entry`
Continue(t, entry) ==
    LET j == Advance(t.forums, t.idx + 1, t.display)
        skips == [i \in 1..(j - t.idx - 1) |-> "skip"]
        said == IF entry = "" THEN t.log ELSE Append(t.log, entry)
    IN  [t EXCEPT !.idx = j, !.tid = 0, !.listed = TRUE, !.cursor = NoCursor,
                  !.log = said \o skips,
                  !.pc = IF j > Len(t.forums) THEN "done" ELSE "listing"]

InitWith(deployments) ==
    /\ cfg \in deployments
    /\ ready = FALSE
    /\ links = EmptyMap
    /\ disk = cfg.file
    /\ flushes = 0
    /\ forumThreads = EmptyForums
    /\ forumArchived = cfg.archived
    /\ threadName = cfg.names
    /\ task = [k \in Handlers |-> IdleTask]
    /\ started = 0
    /\ fetchCalls = [i \in 1..Len(cfg.names) |-> 0]
    /\ restarts = 0
    /\ flushed = load_links(cfg.file, "ok")
    /\ touched = FALSE
    /\ dropped = FALSE

Init == InitWith(Deployments)

\* on_ready lines 153-155: every dispatch loads the file anew
OnReady(outcome) ==
    /\ ready' = TRUE
    /\ links' = load_links(disk, outcome)
    /\ dropped' = (dropped \/ (links # load_links(disk, outcome) /\ touched))
    /\ UNCHANGED <<cfg, restarts, flushed, touched, disk, flushes, forumThreads,
                   forumArchived, threadName, task, started, fetchCalls>>

\* on_message lines 163-190, up to the first suspension
OnMessage(k, message) ==
    /\ k = started + 1
    /\ started' = k
    /\ LET member == message.author
           ignored == \/ member.bot
                      \/ ~message.guild
                      \/ cfg.SOURCE_TEXT_CHANNEL_IDS = <<>>
                      \/ message.channel \notin Range(cfg.SOURCE_TEXT_CHANNEL_IDS)
           forums == gather_target_forums(member.roles)
           t0 == [IdleTask EXCEPT !.kind = "create"]
           t1 == [t0 EXCEPT !.msg = message.id,
                            !.display = member.display,
                            !.roles = member.roles]
           t2 == [t1 EXCEPT !.name = make_thread_name(member.display,
                                                      BaseTime(message.created_at)),
                            !.forums = forums]
       IN  task' = [task EXCEPT ![k] =
                       IF ignored THEN [t0 EXCEPT !.pc = "ignored"]
                       ELSE IF forums = <<>> THEN [t1 EXCEPT !.pc = "noforum"]
                       ELSE Continue(t2, "")]
    /\ UNCHANGED <<cfg, restarts, dropped, touched, flushed, ready, links, disk, flushes, forumThreads, forumArchived,
                   threadName, fetchCalls>>

\* on_message lines 187-196: a page of the archived listing of forums[idx]
\* arrives (or the request fails, which find_existing_user_thread logs and
\* swallows); on a match the forum is skipped; without one the next page is
\* asked for, or, the listing being over, create_thread is called
ListingReturns(k, listing_ok) ==
    LET t == task[k]
        forum == t.forums[t.idx]
    IN
    /\ t.pc = "listing"
    /\ task' = [task EXCEPT ![k] =
                   IF ArchivedMatch(forum, t.display, t.cursor, listing_ok)
                   THEN Continue(t, "skip")
                   ELSE IF listing_ok /\ MorePages(forum, t.cursor)
                   THEN [t EXCEPT !.cursor = NextCursor(forum, t.cursor)]
                   ELSE [t EXCEPT !.pc = "creating", !.listed = listing_ok,
                                  !.cursor = NoCursor,
                                  !.calls = Append(t.calls, t.forums[t.idx])]]
    /\ UNCHANGED <<cfg, restarts, dropped, touched, flushed, ready, links, disk, flushes, forumThreads, forumArchived,
                   threadName, started, fetchCalls>>

\* forum.create_thread lines 192-196 on the platform: the thread is created
\* with a fresh identity, or the call raises and the handler logs it and
\* goes on with the next forum (lines 202-207)
CreateThread(k, ok) ==
    LET t == task[k]
        forum == t.forums[t.idx]
        new == Len(threadName) + 1
    IN
    /\ t.pc = "creating"
    /\ IF ok
       THEN /\ threadName' = Append(threadName, t.name)
            /\ fetchCalls' = Append(fetchCalls, 0)
            /\ forumThreads' = [forumThreads EXCEPT ![forum] = Append(@, new)]
            /\ task' = [task EXCEPT ![k] = [t EXCEPT !.pc = "linking", !.tid = new,
                                                     !.listed = TRUE,
                                                     !.made = Append(t.made, new)]]
       ELSE /\ task' = [task EXCEPT ![k] = Continue(t, "create_failed")]
            /\ UNCHANGED <<threadName, fetchCalls, forumThreads>>
    /\ UNCHANGED <<cfg, restarts, dropped, touched, flushed, ready, links, disk, flushes, forumArchived, started>>

\* on_message lines 198-201 and 206-207: add_link; if it raises (os.makedirs)
\* the handler's except clause logs it; then the next forum
AddLink(k, outcome) ==
    LET t == task[k]
        r == add_link(links, disk, t.msg, t.tid, outcome)
    IN
    /\ t.pc = "linking"
    /\ links' = r.map
    /\ disk' = r.file
    /\ flushes' = IF r.saved THEN flushes + 1 ELSE flushes
    /\ flushed' = IF r.saved /\ outcome = "ok" THEN r.map ELSE flushed
    /\ touched' = (touched \/ r.map # links)
    /\ task' = [task EXCEPT ![k] =
                   Continue(t, IF r.raised THEN "link_failed" ELSE "created")]
    /\ UNCHANGED <<cfg, restarts, dropped, ready, forumThreads, forumArchived, threadName, started,
                   fetchCalls>>

\* Mutant of Fetch: an error for one thread ends the handler
Fetch_StopsOnError(t, i, entry) ==
    LET said == IF entry = "" THEN t.log ELSE Append(t.log, entry) IN
    IF i > Len(t.tids) \/ entry \in {"fetch_failed", "delete_failed"}
    THEN [t EXCEPT !.idx = i, !.pc = "done", !.log = said]
    ELSE [t EXCEPT !.idx = i, !.pc = "fetching", !.log = said,
                   !.fetched = Append(t.fetched, t.tids[i])]

\* The deletion task turns to tids[i] after logging `entry` for the thread
\* before it: bot.fetch_channel is called (line 222) or the loop is over
Fetch(t, i, entry) ==
    LET said == IF entry = "" THEN t.log ELSE Append(t.log, entry) IN
    IF i > Len(t.tids) THEN [t EXCEPT !.idx = i, !.pc = "done", !.log = said]
    ELSE [t EXCEPT !.idx = i, !.pc = "fetching", !.log = said,
                   !.fetched = Append(t.fetched, t.tids[i])]

\* fetchCalls after the deletion task has turned to tids[i]
Fetched(t, i) ==
    IF i > Len(t.tids) \/ t.tids[i] \notin DOMAIN fetchCalls THEN fetchCalls
    ELSE [fetchCalls EXCEPT ![t.tids[i]] = @ + 1]

\* The threads creation handlers have made for message_id and are about to
\* pass to add_link (they stand between lines 196 and 199)
Unlinked(message_id) ==
    {task[j].tid : j \in {i \in Handlers : /\ task[i].kind = "create"
                                           /\ task[i].pc = "linking"
                                           /\ task[i].msg = message_id}}

\* on_raw_message_delete lines 215-222, up to the first suspension; an
\* exception raised by pop_links is not caught and ends the handler
OnRawMessageDelete(k, message_id, outcome) ==
    LET r == pop_links(links, disk, message_id, outcome)
        t0 == [IdleTask EXCEPT !.kind = "delete", !.msg = message_id,
                               !.tids = r.ids,
                               !.unlinked = Unlinked(message_id)]
    IN
    /\ k = started + 1
    /\ started' = k
    /\ links' = r.map
    /\ disk' = r.file
    /\ flushes' = IF r.saved THEN flushes + 1 ELSE flushes
    /\ flushed' = IF r.saved /\ outcome = "ok" THEN r.map ELSE flushed
    /\ touched' = (touched \/ r.map # links)
    /\ IF r.raised
       THEN /\ task' = [task EXCEPT ![k] = [t0 EXCEPT !.pc = "raised"]]
            /\ UNCHANGED fetchCalls
       ELSE /\ task' = [task EXCEPT ![k] = Fetch(t0, 1, "")]
            /\ fetchCalls' = Fetched(t0, 1)
    /\ UNCHANGED <<cfg, restarts, dropped, ready, forumThreads, forumArchived, threadName>>

\* What bot.fetch_channel can answer: the thread, a channel that is not a
\* thread, NotFound, or Forbidden / HTTPException
FetchOutcomes == {"thread", "other", "not_found", "error"}

\* on_raw_message_delete lines 222-233: fetch_channel returns the thread and
\* ch.delete is called; or it returns a channel that is not a Thread (line
\* 223 is false: nothing is deleted, nothing is logged); or it raises
\* NotFound ([Skip] is logged) or Forbidden / HTTPException ([NG] is logged);
\* the handler then goes on with the next identity.  The platform holds no
\* other channel under the identity of a thread it holds.
FetchReturns(k, outcome) ==
    LET t == task[k]
        tid == t.tids[t.idx]
    IN
    /\ t.pc = "fetching"
    /\ outcome = "thread" => Exists(tid)
    /\ outcome \in {"not_found", "other"} => ~Exists(tid)
    /\ IF outcome = "thread"
       THEN /\ task' = [task EXCEPT ![k] = [t EXCEPT !.pc = "deleting",
                                                     !.deleted = Append(t.deleted, tid)]]
            /\ UNCHANGED fetchCalls
       ELSE /\ task' = [task EXCEPT ![k] =
                           Fetch(t, t.idx + 1,
                                 CASE outcome = "other" -> ""
                                   [] outcome = "not_found" -> "not_found"
                                   [] OTHER -> "fetch_failed")]
            /\ fetchCalls' = Fetched(t, t.idx + 1)
    /\ UNCHANGED <<cfg, restarts, dropped, touched, flushed, ready, links, disk, flushes, forumThreads, forumArchived,
                   threadName, started>>

\* What ch.delete can answer
DeleteOutcomes == {"ok", "not_found", "error"}

\* ch.delete lines 224-233 on the platform: the thread is deleted ([OK] is
\* logged), or the call raises; either way the handler goes on with the next
\* identity
DeleteReturns(k, outcome) ==
    LET t == task[k]
        tid == t.tids[t.idx]
        ok == outcome = "ok"
    IN
    /\ t.pc = "deleting"
    /\ ok => Exists(tid)
    /\ outcome = "not_found" => ~Exists(tid)
    /\ forumThreads' = IF ok THEN [f \in ForumIds |-> Remove(forumThreads[f], tid)]
                       ELSE forumThreads
    /\ forumArchived' = IF ok THEN [f \in ForumIds |-> Remove(forumArchived[f], tid)]
                        ELSE forumArchived
    /\ task' = [task EXCEPT ![k] =
                   Fetch(t, t.idx + 1,
                         IF ok THEN "deleted"
                         ELSE IF outcome = "not_found" THEN "not_found"
                         ELSE "delete_failed")]
    /\ fetchCalls' = Fetched(t, t.idx + 1)
    /\ UNCHANGED <<cfg, restarts, dropped, touched, flushed, ready, links, disk, flushes, threadName, started>>

Next ==
    \/ \E o \in LoadOutcomes : OnReady(o)
    \/ \E k \in Handlers, message \in Messages : OnMessage(k, message)
    \/ \E k \in Handlers, ok \in BOOLEAN : ListingReturns(k, ok)
    \/ \E k \in Handlers, ok \in BOOLEAN : CreateThread(k, ok)
    \/ \E k \in Handlers, o \in SaveOutcomes : AddLink(k, o)
    \/ \E k \in Handlers, m \in DeletedIds, o \in SaveOutcomes :
          OnRawMessageDelete(k, m, o)
    \/ \E k \in Handlers, o \in FetchOutcomes : FetchReturns(k, o)
    \/ \E k \in Handlers, o \in DeleteOutcomes : DeleteReturns(k, o)

Spec == Init /\ [][Next]_vars

(***************************************************************************)
(* The process is stopped and started again: the module is imported anew   *)
(* (_links = {}, line 57), the handlers of the old process are gone, the   *)
(* file and the platform are as they were left.                            *)
(***************************************************************************)
Restart ==
    /\ restarts < MaxRestarts
    /\ restarts' = restarts + 1
    /\ ready' = FALSE
    /\ links' = EmptyMap
    /\ touched' = FALSE
    /\ task' = [k \in Handlers |->
                   IF task[k].pc = "idle" THEN task[k]
                   ELSE [task[k] EXCEPT !.pc = "gone"]]
    /\ UNCHANGED <<cfg, disk, flushes, forumThreads, forumArchived, threadName,
                   started, fetchCalls, flushed, dropped>>

RestartNext == Next \/ Restart

RestartSpec == Init /\ [][RestartNext]_vars

(***************************************************************************)
(* The Router on its own: every routing configuration drawn from           *)
(* RouterLists, every member, through the first step of on_message.        *)
(***************************************************************************)
RouterLists ==
    { <<>>, <<Forum1>>, <<Forum1, Forum2>>, <<Forum2, Forum1, Forum2>>,
      <<TextChannel, Forum1>>, <<UnknownChannel, Forum2, UnknownChannel>> }

RouterDeployments ==
    { [ SOURCE_TEXT_CHANNEL_IDS |-> <<SourceChannel>>,
        MALE_FORUM_IDS |-> a, FEMALE_FORUM_IDS |-> b, DEFAULT_FORUM_IDS |-> c,
        archived |-> EmptyForums, names |-> <<>>, file |-> Missing ] :
      a \in RouterLists, b \in RouterLists, c \in RouterLists }

RouterMessages == {Message(1, a, SourceChannel, TRUE, Time1) : a \in Members}

RouterInit == InitWith(RouterDeployments)

RouterNext ==
    \/ \E o \in LoadOutcomes : OnReady(o)
    \/ \E k \in Handlers, message \in RouterMessages : OnMessage(k, message)

RouterSpec == RouterInit /\ [][RouterNext]_vars

(***************************************************************************)
(* Thread naming on its own: creation events whose authors' display names  *)
(* and creation times are drawn from NameInputs, through the first step of *)
(* on_message, which computes the thread name.                             *)
(***************************************************************************)
Time(y, mo, d, hh, off, naive) ==
    [y |-> y, mo |-> mo, d |-> d, hh |-> hh, off |-> off, naive |-> naive]

Alice == <<"A", "l", "i", "c", "e">>

\* A display name of n characters
Long(n) == [i \in 1..n |-> "x"]

\* Display name and created_at of the message with identity i
NameInputs ==
    << [display |-> Alice, at |-> Time1],
       [display |-> Alice, at |-> Time2],
       [display |-> Alice, at |-> Time(2023, 2, 19, 16, 0, FALSE)],
       [display |-> Alice, at |-> Time(2024, 12, 22, 15, 0, FALSE)],
       [display |-> Alice, at |-> Time(2024, 12, 21, 23, 0, TRUE)],
       [display |-> Alice, at |-> Time(2024, 6, 20, 9, 0 - 5, FALSE)],
       [display |-> Alice, at |-> Time(2024, 6, 20, 10, 0 - 5, FALSE)],
       [display |-> Alice, at |-> Time(2024, 3, 1, 2, 12, FALSE)],
       [display |-> Alice, at |-> Time(2100, 2, 18, 15, 0, FALSE)],
       [display |-> Alice, at |-> Time(2000, 2, 18, 15, 0, FALSE)],
       [display |-> Chr("A"), at |-> Time1],
       [display |-> <<"A", "/", "B">>, at |-> Time1],
       [display |-> Long(NAME_LIMIT - 6), at |-> Time1],
       [display |-> Long(NAME_LIMIT - 5), at |-> Time1],
       [display |-> Long(NAME_LIMIT - 4), at |-> Time1],
       [display |-> Long(NAME_LIMIT - 4), at |-> Time(2024, 12, 21, 23, 0, TRUE)],
       [display |-> Long(NAME_LIMIT - 1), at |-> Time1],
       [display |-> Long(NAME_LIMIT), at |-> Time1],
       [display |-> Long(NAME_LIMIT + 5), at |-> Time1] >>

NameMessages ==
    { Message(i, [display |-> NameInputs[i].display, roles |-> {MALE_ROLE_ID},
                  bot |-> FALSE],
              SourceChannel, TRUE, NameInputs[i].at) : i \in 1..Len(NameInputs) }

NameDeployments ==
    { [ SOURCE_TEXT_CHANNEL_IDS |-> <<SourceChannel>>,
        MALE_FORUM_IDS |-> <<Forum1>>, FEMALE_FORUM_IDS |-> <<>>,
        DEFAULT_FORUM_IDS |-> <<>>,
        archived |-> EmptyForums, names |-> <<>>, file |-> Missing ] }

NameInit == InitWith(NameDeployments)

NameNext ==
    \/ \E o \in LoadOutcomes : OnReady(o)
    \/ \E k \in Handlers, message \in NameMessages : OnMessage(k, message)

NameSpec == NameInit /\ [][NameNext]_vars

(***************************************************************************)
(* Vocabulary of the properties                                            *)
(***************************************************************************)
\* The task has run the Router (it was not dropped by lines 165-168)
Routed(t) == t.kind = "create" /\ t.pc \notin {"idle", "ignored"}

HoldsRole(roles) == roles \cap {MALE_ROLE_ID, FEMALE_ROLE_ID} # {}

\* The male list, then the female list, of the roles held
RoleLists(roles) ==
    (IF MALE_ROLE_ID \in roles THEN cfg.MALE_FORUM_IDS ELSE <<>>)
    \o (IF FEMALE_ROLE_ID \in roles THEN cfg.FEMALE_FORUM_IDS ELSE <<>>)

FirstIndex(list, x) ==
    CHOOSE i \in 1..Len(list) : list[i] = x /\ \A j \in 1..(i - 1) : list[j] # x

NoDuplicates(s) == \A i, j \in 1..Len(s) : i # j => s[i] # s[j]

\* result is the forum channels of list, each once, in first-seen order
FirstSeenForums(result, list) ==
    /\ NoDuplicates(result)
    /\ Range(result) = {f \in Range(list) : IsForumChannel(f)}
    /\ \A i, j \in 1..Len(result) :
           i < j => FirstIndex(list, result[i]) < FirstIndex(list, result[j])

(***************************************************************************)
(* C9: the Router's result holds no forum twice and lists the forum        *)
(* channels of the male list followed by the female list (or of the        *)
(* default list) in first-seen order; two events by members with the same  *)
(* roles are routed to the same ordered list.                              *)
(***************************************************************************)
C9_RouterOutput ==
    /\ \A k \in Handlers :
           Routed(task[k]) =>
               \/ FirstSeenForums(task[k].forums, RoleLists(task[k].roles))
               \/ FirstSeenForums(task[k].forums, cfg.DEFAULT_FORUM_IDS)
    /\ \A k, j \in Handlers :
           Routed(task[k]) /\ Routed(task[j]) /\ task[k].roles = task[j].roles
               => task[k].forums = task[j].forums

\* C9 witness: a routed event whose candidates held a duplicate or an
\* identity that is no forum, with two forums left
C9_Witness ==
    \E k \in Handlers :
        /\ Routed(task[k])
        /\ Len(task[k].forums) = 2
        /\ Len(RoleLists(task[k].roles)) > 2

(***************************************************************************)
(* C10: the default list is used if and only if the author holds neither   *)
(* role; an author holding a role is routed to that role's lists only,     *)
(* even when they are empty.                                               *)
(***************************************************************************)
C10_DefaultOnlyWithoutRole ==
    \A k \in Handlers :
        Routed(task[k]) =>
            FirstSeenForums(task[k].forums,
                            IF HoldsRole(task[k].roles)
                            THEN RoleLists(task[k].roles)
                            ELSE cfg.DEFAULT_FORUM_IDS)

(***************************************************************************)
(* Vocabulary of the Link Store and handler properties                     *)
(***************************************************************************)
MessageIds == {m.id : m \in Messages}

\* The identities of the threads that exist on the platform, in forum f
ThreadsIn(f) == {t \in Range(forumThreads[f]) \cup Range(forumArchived[f]) : t > 0}

\* The threads of forum f whose name belongs to display_name
OwnThreads(f, display_name) ==
    {t \in ThreadsIn(f) : name_belongs_to_user(threadName[t], display_name)}

Displays == {a.display : a \in Members}

Finished(t) == t.pc \in {"done", "raised", "ignored", "noforum"}

\* Task k starts in this step as a creation / deletion handler
StartsCreate(k) == task[k].pc = "idle" /\ task'[k].kind = "create"
StartsDelete(k) == task[k].pc = "idle" /\ task'[k].kind = "delete"

\* Task k calls forum.create_thread in this step
CallsCreate(k) == Len(task'[k].calls) > Len(task[k].calls)

(***************************************************************************)
(* C1: for a message m with no entry and any thread t, add_link(m, t)      *)
(* returns, the pop_links(m) after it returns exactly [t], and a further   *)
(* pop_links(m) returns the empty list - whatever the flushes do.          *)
(***************************************************************************)
C1_RoundTrip ==
    ready =>
        \A m \in MessageIds, t \in 1..(Len(threadName) + 1),
           o1 \in SaveOutcomes, o2 \in SaveOutcomes :
            Str(m) \notin DOMAIN links =>
                LET a == add_link(links, disk, m, t, o1)
                    p == pop_links(a.map, a.file, m, o2)
                    q == pop_links(p.map, p.file, m, o2)
                IN  /\ ~a.raised
                    /\ ~p.raised /\ p.ids = <<t>>
                    /\ ~q.raised /\ q.ids = <<>>

\* The same round trip over the calls in which os.makedirs does not fail
C1_RoundTripWithDirectory ==
    ready =>
        \A m \in MessageIds, t \in 1..(Len(threadName) + 1),
           o1 \in SaveOutcomes \ {"dir_fail"}, o2 \in SaveOutcomes \ {"dir_fail"} :
            Str(m) \notin DOMAIN links =>
                LET a == add_link(links, disk, m, t, o1)
                    p == pop_links(a.map, a.file, m, o2)
                    q == pop_links(p.map, p.file, m, o2)
                IN  /\ ~a.raised
                    /\ ~p.raised /\ p.ids = <<t>>
                    /\ ~q.raised /\ q.ids = <<>>

(***************************************************************************)
(* C2: when the entry of m holds two threads t1, t2 put there by add_link  *)
(* and the deletion of m is handled, the handler calls fetch_channel for   *)
(* t1 and for t2 and for no other thread, and (no other add for m having   *)
(* been made) m has no entry afterwards.                                   *)
(***************************************************************************)
\* Every add_link for the message of deletion task d was made before its pop
NoOtherAdd(d) ==
    \A j \in Handlers :
        task[j].kind = "create" /\ task[j].msg = task[d].msg
            => Finished(task[j]) /\ Range(task[j].made) \subseteq Range(task[d].tids)

C2_Cascade ==
    \A k \in Handlers :
        task[k].kind = "delete" /\ Finished(task[k]) /\ Len(task[k].tids) = 2
            => /\ task[k].pc = "done"
               /\ task[k].fetched = task[k].tids
               /\ NoOtherAdd(k) => Str(task[k].msg) \notin DOMAIN links

\* The same cascade over the handlers whose pop_links did not raise, as long
\* as no on_ready has replaced a changed mapping the file did not hold
C2_CascadeUnlessPopRaises ==
    ~dropped => \A k \in Handlers :
        task[k].kind = "delete" /\ task[k].pc = "done" /\ Len(task[k].tids) = 2
            => /\ task[k].fetched = task[k].tids
               /\ NoOtherAdd(k) => Str(task[k].msg) \notin DOMAIN links

(***************************************************************************)
(* C3: every forum holds at most one thread whose name belongs to a given  *)
(* display name.  Stated for the deployments whose forums start without    *)
(* archived threads, where no thread can lie beyond the listing limit.     *)
(***************************************************************************)
C3_AtMostOnePerUserForum ==
    cfg.archived = EmptyForums =>
        \A f \in ForumIds, d \in Displays : Cardinality(OwnThreads(f, d)) <= 1

(***************************************************************************)
(* C4 as claimed: create_thread is never called on a forum that holds,     *)
(* active or archived, a thread belonging to the author's display name.    *)
(***************************************************************************)
C4_NoCreateWhenAnyOwnThread ==
    [][\A k \in Handlers :
          CallsCreate(k) =>
              OwnThreads(task[k].forums[task[k].idx], task[k].display) = {}]_vars

(***************************************************************************)
(* C4 amended: a forum is passed on to the archived listing only if its    *)
(* active threads hold no thread belonging to the author's display name    *)
(* when the resolver scans them; when a page of the archived listing that  *)
(* holds such a thread is delivered, the forum is skipped, with no         *)
(* create_thread call; create_thread is called only at the end of a        *)
(* listing; a thread is made, and a link recorded, only after such a call. *)
(***************************************************************************)
\* The listing step of task k is the delivery of a page (not a failure)
PageDelivered(k) ==
    /\ task[k].pc = "listing" /\ task'[k] # task[k]
    /\ ~(task'[k].pc = "creating" /\ ~task'[k].listed)

C4_NoCreateWhenResolverFinds ==
    [][\A k \in Handlers :
          /\ (task'[k].pc = "listing"
              /\ (task[k].pc # "listing" \/ task[k].idx # task'[k].idx))
                 => OwnThreads(task'[k].forums[task'[k].idx], task'[k].display)
                        \cap Range(forumThreads[task'[k].forums[task'[k].idx]]) = {}
          /\ (PageDelivered(k)
              /\ OwnThreads(task[k].forums[task[k].idx], task[k].display)
                     \cap Range(PageIds(task[k].forums[task[k].idx], task[k].cursor))
                     # {})
                 => /\ task'[k].calls = task[k].calls
                    /\ task'[k].made = task[k].made
                    /\ task'[k].idx > task[k].idx
                    /\ task'[k].log[task[k].idx] = "skip"
          /\ CallsCreate(k)
                 => /\ task[k].pc = "listing"
                    /\ task'[k].calls = Append(task[k].calls, task[k].forums[task[k].idx])
          /\ Len(task'[k].made) > Len(task[k].made)
                 => task[k].pc = "creating"
          /\ (task[k].kind = "create" /\ task'[k] # task[k] /\ links' # links)
                 => task[k].pc = "linking" /\ task[k].tid = task[k].made[Len(task[k].made)]
       ]_vars

\* C4 witness: a creation handler has skipped a forum whose archived listing
\* holds a thread of its author beyond the first page, has called
\* create_thread on no such forum, and is over
C4_Witness ==
    \E k \in Handlers :
        /\ task[k].kind = "create" /\ task[k].pc = "done"
        /\ \E i \in 1..Len(task[k].forums) :
               /\ task[k].log[i] = "skip"
               /\ OwnThreads(task[k].forums[i], task[k].display)
                      \cap Range(forumArchived[task[k].forums[i]]) # {}
               /\ OwnThreads(task[k].forums[i], task[k].display)
                      \cap Range(Listed(forumArchived[task[k].forums[i]], PAGE_SIZE))
                      = {}
               /\ task[k].forums[i] \notin Range(task[k].calls)

(***************************************************************************)
(* C5: no thread identity is recorded under two message identities.        *)
(***************************************************************************)
C5_NoCrossLinking ==
    \A k1, k2 \in DOMAIN links :
        k1 # k2 => Range(links[k1]) \cap Range(links[k2]) = {}

\* C5 witness: two messages have threads recorded, one of them by add_link
C5_Witness ==
    /\ \E k1, k2 \in DOMAIN links : k1 # k2 /\ links[k1] # <<>> /\ links[k2] # <<>>
    /\ \E k \in Handlers : task[k].kind = "create" /\ "created" \in Range(task[k].log)

(***************************************************************************)
(* C6: an author with only the male role, two distinct male forums that    *)
(* resolve, no thread of the author in either, every platform call         *)
(* succeeding: the creation handler makes one thread in each forum and     *)
(* those two are what is linked under m; the deletion of m handled         *)
(* afterwards deletes both and leaves no entry for m.                      *)
(***************************************************************************)
\* Creation task c ran the scenario's first half: it is the only creation
\* event of its author, nothing was skipped, no create_thread failed
MaleScenario(c) ==
    /\ task[c].kind = "create" /\ task[c].pc = "done"
    /\ \A j \in Handlers \ {c} : task[j].display # task[c].display
    /\ task[c].roles \cap {MALE_ROLE_ID, FEMALE_ROLE_ID} = {MALE_ROLE_ID}
    /\ cfg.MALE_FORUM_IDS = <<Forum1, Forum2>>
    /\ "skip" \notin Range(task[c].log)
    /\ "create_failed" \notin Range(task[c].log)

\* Deletion task d handled the deletion of c's message after c had ended,
\* and every fetch_channel and delete call of it succeeded
DeletesAfter(d, c) ==
    /\ task[d].kind = "delete" /\ Finished(task[d])
    /\ task[d].msg = task[c].msg
    /\ task[d].tids = task[c].made
    /\ Range(task[d].log) \subseteq {"deleted"}
    /\ task[d].pc = "done" => Len(task[d].log) = Len(task[d].tids)

CreatedBoth(c) ==
    /\ Len(task[c].made) = 2
    /\ task[c].calls = <<Forum1, Forum2>>
    /\ \A i \in 1..2 : threadName[task[c].made[i]] = task[c].name
    /\ (\A d \in Handlers : task[d].kind # "delete")
           => /\ Entry(links, Str(task[c].msg)) = task[c].made
              /\ \A i \in 1..2 : OwnThreads(task[c].forums[i], task[c].display)
                                     = {task[c].made[i]}

DeletedBoth(d) ==
    /\ task[d].pc = "done"
    /\ task[d].fetched = task[d].tids
    /\ task[d].deleted = task[d].tids
    /\ \A t \in Range(task[d].tids) : ~Exists(t)
    /\ Str(task[d].msg) \notin DOMAIN links

C6_CreateThenDelete ==
    \A c \in Handlers :
        MaleScenario(c) =>
            /\ CreatedBoth(c)
            /\ \A d \in Handlers : DeletesAfter(d, c) => DeletedBoth(d)

\* The same scenario over the deletion handlers whose pop_links did not
\* raise, as long as no on_ready has replaced a changed mapping the file did
\* not hold
C6_CreateThenDeleteUnlessPopRaises ==
    ~dropped => \A c \in Handlers :
        MaleScenario(c) =>
            /\ CreatedBoth(c)
            /\ \A d \in Handlers :
                   DeletesAfter(d, c) /\ task[d].pc = "done" => DeletedBoth(d)

(***************************************************************************)
(* C7: a creation event by an author holding neither role, with an empty   *)
(* default list, ends as a routing failure in its first step: no           *)
(* create_thread call, no change to the link mapping, to the file or to    *)
(* the forums, and no later step of that handler.                          *)
(***************************************************************************)
C7_RoutingFailureDrops ==
    [][\A k \in Handlers :
          /\ (StartsCreate(k) /\ task'[k].pc # "ignored"
              /\ ~HoldsRole(task'[k].roles) /\ cfg.DEFAULT_FORUM_IDS = <<>>)
                 => /\ task'[k].pc = "noforum"
                    /\ task'[k].calls = <<>> /\ task'[k].made = <<>>
                    /\ UNCHANGED <<links, disk, flushes, forumThreads, forumArchived,
                                   threadName>>
          /\ task[k].pc = "noforum" => task'[k] = task[k]
       ]_vars

\* C7 witness: such an event has been handled
C7_Witness ==
    \E k \in Handlers :
        /\ task[k].pc = "noforum"
        /\ ~HoldsRole(task[k].roles)
        /\ cfg.DEFAULT_FORUM_IDS = <<>>

(***************************************************************************)
(* C8: the deletion of a message that has no entry ends in its first step: *)
(* no fetch_channel or delete call, no flush, the mapping, the file and    *)
(* the forums unchanged, no exception.                                     *)
(***************************************************************************)
C8_DeleteWithoutRecord ==
    [][\A k \in Handlers :
          /\ (StartsDelete(k) /\ Str(task'[k].msg) \notin DOMAIN links)
                 => /\ task'[k].pc = "done"
                    /\ task'[k].fetched = <<>> /\ task'[k].deleted = <<>>
                    /\ UNCHANGED <<links, disk, flushes, fetchCalls, forumThreads,
                                   forumArchived>>
          /\ (task[k].kind = "delete" /\ task[k].pc = "done") => task'[k] = task[k]
       ]_vars

\* C8 witness: such a deletion has been handled while other messages had
\* entries
C8_Witness ==
    \E k \in Handlers :
        /\ task[k].kind = "delete" /\ task[k].pc = "done" /\ task[k].tids = <<>>
        /\ links # EmptyMap

(***************************************************************************)
(* C11: a creation handler works through its routed forums in order and    *)
(* ends only after the last one: while it runs it has one log entry for    *)
(* each forum before the current one, when it is over it has one for every *)
(* forum, whatever failed before; a forum is either skipped because a      *)
(* thread of the author was found or create_thread is called on it, and    *)
(* add_link is called for every thread made.                               *)
(***************************************************************************)
ForumEntries == {"skip", "created", "create_failed", "link_failed"}

\* The forums of task t that were not skipped, in order
Attempted(t) ==
    SelectSeq([i \in 1..Len(t.log) |-> IF t.log[i] = "skip" THEN 0 ELSE t.forums[i]],
              LAMBDA f : f # 0)

\* The number of forums of task t for which add_link was called
Linked(t) == Cardinality({i \in 1..Len(t.log) : t.log[i] \in {"created", "link_failed"}})

C11_EveryForumAttempted ==
    \A k \in Handlers :
        LET t == task[k] IN
        (t.kind = "create" /\ t.forums # <<>>) =>
            /\ t.pc \in {"listing", "creating", "linking", "done"}
            /\ Range(t.log) \subseteq ForumEntries
            /\ t.pc = "done" => Len(t.log) = Len(t.forums)
            /\ t.pc # "done" => t.idx \in 1..Len(t.forums) /\ Len(t.log) = t.idx - 1
            /\ t.pc = "listing" => t.calls = Attempted(t)
            /\ t.pc \in {"creating", "linking"}
                   => t.calls = Append(Attempted(t), t.forums[t.idx])
            /\ t.pc = "done" => t.calls = Attempted(t) /\ Linked(t) = Len(t.made)

\* C11 witness: a handler whose first forum failed, in create_thread or in
\* add_link, has made and linked a thread in its second forum
C11_Witness ==
    \E k \in Handlers :
        /\ task[k].kind = "create" /\ task[k].pc = "done"
        /\ Len(task[k].forums) = 2
        /\ task[k].log[1] \in {"create_failed", "link_failed"}
        /\ task[k].log[2] = "created"
        /\ task[k].calls = task[k].forums

(***************************************************************************)
(* C12: a deletion handler to which pop_links returned identities calls    *)
(* fetch_channel for each of them in order, whatever the calls for the     *)
(* earlier ones answered, and ends only after the last one; a thread that  *)
(* is reported as not found is logged as such, only if it does not exist,  *)
(* and the handler goes on with the next identity.  At most one outcome is *)
(* logged for an identity (none when it is not a thread's).                *)
(***************************************************************************)
ThreadEntries == {"deleted", "not_found", "fetch_failed", "delete_failed"}

C12_Attempts(t) ==
    /\ t.pc \in {"fetching", "deleting", "done"}
    /\ Range(t.log) \subseteq ThreadEntries
    /\ Range(t.deleted) \subseteq Range(t.fetched)
    /\ t.pc = "done" => t.fetched = t.tids /\ Len(t.log) <= Len(t.tids)
    /\ t.pc # "done" => /\ t.idx \in 1..Len(t.tids)
                         /\ t.fetched = SubSeq(t.tids, 1, t.idx)
                         /\ Len(t.log) <= t.idx - 1

C12_NotFoundStep(k) ==
    (task[k].kind = "delete" /\ Len(task'[k].log) > Len(task[k].log)
     /\ task'[k].log[Len(task'[k].log)] = "not_found")
        => /\ ~Exists(task[k].tids[task[k].idx])
           /\ task'[k].idx = task[k].idx + 1
           /\ task'[k].pc = IF task'[k].idx > Len(task[k].tids) THEN "done"
                            ELSE "fetching"
           /\ task'[k].fetched = SubSeq(task[k].tids, 1,
                                        Min(task'[k].idx, Len(task[k].tids)))

C12_EveryThreadAttempted ==
    /\ [](\A k \in Handlers :
             (task[k].kind = "delete" /\ task[k].pc # "raised"
              /\ task[k].tids # <<>>) => C12_Attempts(task[k]))
    /\ [][\A k \in Handlers : C12_NotFoundStep(k)]_vars

\* C12 witness: a handler whose call for the first of two threads ended in
\* not-found has deleted the second
C12_Witness ==
    \E k \in Handlers :
        /\ task[k].kind = "delete" /\ task[k].pc = "done"
        /\ Len(task[k].tids) = 2
        /\ task[k].log[1] = "not_found"
        /\ task[k].log[2] = "deleted"
        /\ task[k].fetched = task[k].tids

(***************************************************************************)
(* C13: the Link Store's operations run one at a time.  A step changes the *)
(* mapping by one whole add_link (one identity appended under one key) or  *)
(* one whole pop_links (one key removed) of a single handler, or by one    *)
(* whole load_links; the file changes only in a flush, and a flush that    *)
(* leaves a readable file leaves the whole mapping as it is at the end of  *)
(* that operation.  No update is lost: every identity passed to add_link   *)
(* is under its message's key or was taken out by a pop_links for that     *)
(* message, and every identity under a key was loaded or added there.      *)
(***************************************************************************)
\* The thread identities task t has passed to add_link
Added(t) == {t.made[i] : i \in 1..Min(Linked(t), Len(t.made))}

\* Some pop_links for message m took t out
PoppedBy(m, t) ==
    \E d \in Handlers :
        task[d].kind = "delete" /\ task[d].msg = m /\ t \in Range(task[d].tids)

C13_NoLostUpdate ==
    /\ \A m \in MessageIds :
           /\ NoDuplicates(Entry(links, Str(m)))
           /\ \A t \in Range(Entry(links, Str(m))) :
                  \/ t \in Range(Entry(load_links(cfg.file, "ok"), Str(m)))
                  \/ \E c \in Handlers : /\ task[c].kind = "create"
                                          /\ task[c].msg = m
                                          /\ t \in Added(task[c])
    /\ \A c \in Handlers :
           task[c].kind = "create" =>
               \A t \in Added(task[c]) :
                   \/ t \in Range(Entry(links, Str(task[c].msg)))
                   \/ PoppedBy(task[c].msg, t)
    /\ DOMAIN links \subseteq {Str(m) : m \in MessageIds}

C13_OneOperation ==
    /\ links' # links =>
           \/ /\ \E o \in LoadOutcomes : links' = load_links(disk, o)
              /\ task' = task
           \/ \E k \in Handlers :
                 /\ \A j \in Handlers \ {k} : task'[j] = task[j]
                 /\ \/ /\ task[k].pc = "linking"
                       /\ DOMAIN links' = DOMAIN links \cup {Str(task[k].msg)}
                       /\ \A key \in DOMAIN links' :
                              links'[key] = IF key = Str(task[k].msg)
                                            THEN Append(Entry(links, key), task[k].tid)
                                            ELSE links[key]
                    \/ /\ StartsDelete(k)
                       /\ DOMAIN links' = DOMAIN links \ {Str(task'[k].msg)}
                       /\ \A key \in DOMAIN links' : links'[key] = links[key]
                       /\ task'[k].tids = links[Str(task'[k].msg)]
    /\ disk' # disk => flushes' = flushes + 1
    /\ flushes' # flushes => flushes' = flushes + 1
    /\ (disk' # disk /\ disk'.kind = "file") => disk' = FileOf(links')
    /\ (flushes' # flushes /\ disk'.kind = "file" /\ disk' # FileOf(links'))
           => disk' = disk

C13_LinkStoreSerial == []C13_NoLostUpdate /\ [][C13_OneOperation]_vars

\* The same as long as no on_ready has replaced a changed mapping the file
\* did not hold
C13_SerialUnlessReloaded ==
    [](~dropped => C13_NoLostUpdate) /\ [][C13_OneOperation]_vars

(***************************************************************************)
(* C14: whatever the flush does, add_link returns to the creation handler  *)
(* with the thread recorded under the message, and pop_links returns the   *)
(* identities it removed to the deletion handler, which goes on to call    *)
(* fetch_channel for the first of them.                                    *)
(***************************************************************************)
C14_FlushFailureContained ==
    [][\A k \in Handlers :
          /\ (task[k].pc = "linking" /\ task'[k] # task[k])
                 => /\ task[k].tid \in Range(Entry(links', Str(task[k].msg)))
                    /\ task'[k].log[Len(task[k].log) + 1] = "created"
          /\ (StartsDelete(k) /\ Str(task'[k].msg) \in DOMAIN links)
                 => /\ Str(task'[k].msg) \notin DOMAIN links'
                    /\ task'[k].tids = links[Str(task'[k].msg)]
                    /\ task'[k].pc = "fetching"
                    /\ task'[k].fetched = <<task'[k].tids[1]>>
       ]_vars

\* The Link Store's two operations over the flushes in which os.makedirs
\* does not fail: neither raises, and the change to the mapping stands
C14_ContainedWithDirectory ==
    ready =>
        \A m \in MessageIds, t \in 1..(Len(threadName) + 1),
           o \in SaveOutcomes \ {"dir_fail"} :
            LET a == add_link(links, disk, m, t, o)
                p == pop_links(links, disk, m, o)
            IN  /\ ~a.raised /\ t \in Range(Entry(a.map, Str(m)))
                /\ ~p.raised /\ p.ids = Entry(links, Str(m))
                /\ Str(m) \notin DOMAIN p.map

(***************************************************************************)
(* C15: when on_ready runs after a restart the mapping is the one of the   *)
(* last flush that succeeded, and a deletion handled next, before any      *)
(* other event, takes out exactly the threads that mapping held under the  *)
(* message and calls fetch_channel for the first of them.                  *)
(***************************************************************************)
C15_CascadeSurvivesRestart ==
    [][/\ (restarts > 0 /\ ~ready /\ ready') => links' = flushed
       /\ \A k \in Handlers :
              (StartsDelete(k) /\ restarts > 0
               /\ \A j \in Handlers : task[j].pc \in {"idle", "gone"})
                  => /\ task'[k].tids = Entry(flushed, Str(task'[k].msg))
                     /\ (task'[k].tids # <<>> /\ task'[k].pc # "raised")
                            => task'[k].fetched = <<task'[k].tids[1]>>
      ]_vars

\* The same over the restarts that find the file as a flush that succeeded,
\* or the run before the first, left it, the calls of load_links that read
\* the file, and the deletions handled after such a call
C15_RestoredUnlessFlushTorn ==
    [][/\ (restarts > 0 /\ ~ready /\ ready' /\ disk # Corrupt
           /\ links' = load_links(disk, "ok")) => links' = flushed
       /\ \A k \in Handlers :
              (StartsDelete(k) /\ restarts > 0 /\ ready /\ disk # Corrupt
               /\ links = load_links(disk, "ok")
               /\ \A j \in Handlers : task[j].pc \in {"idle", "gone"})
                  => /\ task'[k].tids = Entry(flushed, Str(task'[k].msg))
                     /\ (task'[k].tids # <<>> /\ task'[k].pc # "raised")
                            => task'[k].fetched = <<task'[k].tids[1]>>
      ]_vars

(***************************************************************************)
(* C16: an entry is taken out once and whole.  The pop_links of a deletion *)
(* handler leaves no entry for its message and no later step of a deletion *)
(* handler touches the mapping; no thread identity is handed to two        *)
(* deletion handlers, nor twice to one; fetch_channel is called at most    *)
(* once for a thread; two handlers for the same message both obtain        *)
(* identities only if an add_link for the message came between them.       *)
(***************************************************************************)
C16_State ==
    /\ \A d1, d2 \in Handlers :
           (d1 # d2 /\ task[d1].kind = "delete" /\ task[d2].kind = "delete")
               => /\ Range(task[d1].tids) \cap Range(task[d2].tids) = {}
                  /\ (task[d1].msg = task[d2].msg /\ task[d1].tids # <<>>
                      /\ task[d2].tids # <<>>)
                         => \E c \in Handlers :
                                /\ task[c].kind = "create"
                                /\ task[c].msg = task[d1].msg
                                /\ Added(task[c]) \cap (Range(task[d1].tids)
                                       \cup Range(task[d2].tids)) # {}
    /\ \A d \in Handlers :
           task[d].kind = "delete"
               => /\ NoDuplicates(task[d].tids)
                  /\ NoDuplicates(task[d].fetched)
                  /\ NoDuplicates(task[d].deleted)
                  /\ Range(task[d].fetched) \subseteq Range(task[d].tids)
    /\ \A t \in DOMAIN fetchCalls : fetchCalls[t] <= 1

C16_Step ==
    \A k \in Handlers :
        /\ StartsDelete(k)
               => /\ Str(task'[k].msg) \notin DOMAIN links'
                  /\ task'[k].tids = Entry(links, Str(task'[k].msg))
        /\ (task[k].kind = "delete" /\ task'[k] # task[k]) => links' = links

C16_ConsumedOnce == []C16_State /\ [][C16_Step]_vars

\* The same as long as no on_ready has replaced a changed mapping the file
\* did not hold
C16_ConsumedOnceUnlessReloaded ==
    [](~dropped => C16_State) /\ [][C16_Step]_vars

(***************************************************************************)
(* C17: the thread name is the display name, "/", the month, "/", the day  *)
(* of the Tokyo date ten days after the creation time, cut to its first 95 *)
(* characters: "Alice" at 2024-01-01T00:00 JST gives "Alice/1/11", no name *)
(* is longer than 95 and a name that would be is exactly 95 long.          *)
(***************************************************************************)
\* Month and day, in Tokyo, of the date ten days after NameInputs[i].at
ExpectedDue ==
    << <<1, 11>>, <<3, 1>>, <<3, 2>>, <<1, 2>>, <<12, 31>>, <<6, 30>>, <<7, 1>>,
       <<3, 10>>, <<3, 1>>, <<2, 29>>, <<1, 11>>, <<1, 11>>, <<1, 11>>, <<1, 11>>,
       <<1, 11>>, <<12, 31>>, <<1, 11>>, <<1, 11>>, <<1, 11>> >>

\* The uncut name of the message with identity i
FullName(i) ==
    NameInputs[i].display \o <<"/">> \o Str(ExpectedDue[i][1]) \o <<"/">>
        \o Str(ExpectedDue[i][2])

C17_ThreadName ==
    \A k \in Handlers :
        Routed(task[k]) =>
            LET name == task[k].name
                full == FullName(task[k].msg)
            IN  /\ Len(name) <= 95
                /\ Len(full) <= 95 => name = full
                /\ Len(full) > 95 => Len(name) = 95
                /\ \A i \in 1..Len(name) : name[i] = full[i]
                /\ task[k].msg = 1
                       => name = <<"A", "l", "i", "c", "e", "/", "1", "/", "1", "1">>

\* C17 witness: the example name has been computed, and a name that was cut
C17_Witness ==
    \E k, j \in Handlers :
        /\ Routed(task[k]) /\ task[k].msg = 1
        /\ Routed(task[j]) /\ Len(FullName(task[j].msg)) > 95
        /\ Len(task[j].name) = 95

(***************************************************************************)
(* C18: a thread name belongs to a display name exactly if the part of the *)
(* name before its first "/" is the display name.                          *)
(***************************************************************************)
\* thread_name holds a "/" and the part before the first one is display_name
FirstSegmentIs(thread_name, display_name) ==
    \E i \in 1..Len(thread_name) :
        /\ thread_name[i] = "/"
        /\ \A j \in 1..(i - 1) : thread_name[j] # "/"
        /\ SubSeq(thread_name, 1, i - 1) = display_name

C18_OwnershipByFirstSegment ==
    \A k, j \in Handlers :
        Routed(task[k]) /\ Routed(task[j])
            => (name_belongs_to_user(task[k].name, task[j].display)
                    <=> FirstSegmentIs(task[k].name, task[j].display))

\* The same over the display names that hold no "/"
C18_OwnershipWithoutSeparator ==
    \A k, j \in Handlers :
        Routed(task[k]) /\ Routed(task[j]) /\ "/" \notin Range(task[j].display)
            => (name_belongs_to_user(task[k].name, task[j].display)
                    <=> FirstSegmentIs(task[k].name, task[j].display))

(***************************************************************************)
(* C20: the name computed for a creation event belongs to the display name *)
(* of its author, however long the display name is.                        *)
(***************************************************************************)
C20_OwnNameRecognised ==
    \A k \in Handlers :
        Routed(task[k]) => name_belongs_to_user(task[k].name, task[k].display)

\* The same over the display names whose "/" survives the cut
C20_RecognisedWhenSeparatorKept ==
    \A k \in Handlers :
        Routed(task[k]) /\ Len(task[k].display) < NAME_LIMIT
            => name_belongs_to_user(task[k].name, task[k].display)

(***************************************************************************)
(* C19: a thread that a creation handler has made for message m and not    *)
(* yet recorded when a deletion handler for m runs pop_links is not among  *)
(* the identities that handler obtains and gets no fetch_channel call from *)
(* it; the add_link of the creation handler then puts the thread under m's *)
(* key, where it stays until another pop_links for m or a load_links       *)
(* (which gives {} when the read fails).                                   *)
(***************************************************************************)
C19_State ==
    \A d \in Handlers :
        \A t \in task[d].unlinked :
            /\ task[d].kind = "delete"
            /\ t \notin Range(task[d].tids)
            /\ t \notin Range(task[d].fetched)
            /\ \E c \in Handlers :
                   /\ task[c].kind = "create" /\ task[c].msg = task[d].msg
                   /\ t \in Range(task[c].made)

C19_Step ==
    \A d \in Handlers :
        \A t \in task[d].unlinked :
            LET key == Str(task[d].msg) IN
            /\ \A c \in Handlers :
                   (task[c].pc = "linking" /\ task[c].tid = t /\ task'[c] # task[c])
                       => t \in Range(Entry(links', key))
            /\ (t \in Range(Entry(links, key)) /\ t \notin Range(Entry(links', key)))
                   => \/ \E k \in Handlers :
                             StartsDelete(k) /\ task'[k].msg = task[d].msg
                      \/ /\ \E o \in LoadOutcomes : links' = load_links(disk, o)
                         /\ task' = task

C19_CreateDeleteRace == []C19_State /\ [][C19_Step]_vars

\* C19 witness: both handlers are over, the pop_links came between the
\* create_thread and the add_link, the thread exists, has had no
\* fetch_channel call and is recorded under the deleted message
C19_Witness ==
    \E c, d \in Handlers :
        /\ task[c].kind = "create" /\ task[c].pc = "done"
        /\ task[d].kind = "delete" /\ task[d].pc = "done"
        /\ task[d].msg = task[c].msg
        /\ \E t \in task[d].unlinked :
               /\ t \in Range(task[c].made)
               /\ Exists(t)
               /\ fetchCalls[t] = 0
               /\ t \in Range(Entry(links, Str(task[c].msg)))

====
